---- MODULE Spec2Model ----
(***************************************************************************)
(* Order saga / state-machine coordinator of federated-monolith-services.  *)
(* Source: src/src/models/order.js, src/src/models/index.js,               *)
(* src/src/adapters/address-adapter.js.                                    *)
(*                                                                         *)
(* JavaScript values: the string "undefined" stands for an absent          *)
(* property, "null" for null and "" for an empty (falsy) payload.          *)
(* Booleans stored in order fields are the strings "true" / "false".       *)
(* A function that can throw returns a record with ok = FALSE and the      *)
(* error message in err.                                                   *)
(***************************************************************************)
EXTENDS Integers, Sequences, FiniteSets, TLC

VARIABLES
    created,    \* an order has been produced by createOrder
    order,      \* the Order aggregate (the previous snapshot of the next update)
    last,       \* what the last operation did
    calcIn,     \* input of the pure-function harness
    calcOut,    \* output of the pure-function harness
    deleted,    \* the order has been deleted
    saga,       \* the compensation runs of the order
    dispatch    \* the handleOrderEvent call in progress and its adapter promises

vars == <<created, order, last, calcIn, calcOut, deleted, saga, dispatch>>

\* the variables outside the order aggregate and its last operation
calc == <<calcIn, calcOut>>
aux == <<deleted, saga, dispatch>>

(***************************************************************************)
(* Bounds                                                                  *)
(***************************************************************************)
MaxItems == 2
\* error / timeout reports per order
MaxReports == 2

(***************************************************************************)
(* Values                                                                  *)
(***************************************************************************)
Undef == "undefined"
Null == "null"

PENDING == "PENDING"
APPROVED == "APPROVED"
SHIPPING == "SHIPPING"
COMPLETE == "COMPLETE"
CANCELED == "CANCELED"

OrderStatus == {PENDING, APPROVED, SHIPPING, COMPLETE, CANCELED}

\* updateSignature / needSignature compare the total with 999.99; totals are
\* whole currency units here, so the comparison is made in cents.
SignatureThresholdCents == 99999

Truthy(v) == v \notin {"", Undef, Null, "false"}

(***************************************************************************)
(* Order items                                                             *)
(***************************************************************************)
Item(id, isNum, price, hasQty, qty) ==
    [itemId |-> id, priceIsNumber |-> isNum, price |-> price,
     hasQty |-> hasQty, qty |-> qty]

ItemA == Item("a", TRUE, 500, TRUE, 1)
ItemB == Item("b", TRUE, 600, TRUE, 1)
ItemZeroQty == Item("c", TRUE, 5, TRUE, 0)
ItemNoQty == Item("d", TRUE, 7, FALSE, 0)
ItemTwoQty == Item("e", TRUE, 3, TRUE, 2)
ItemNoId == Item("", TRUE, 5, TRUE, 1)
ItemNoPrice == Item("f", FALSE, 0, TRUE, 1)

ValidItemPool == {ItemA, ItemB, ItemZeroQty}
ItemPool == {ItemA, ItemB, ItemZeroQty, ItemNoQty, ItemTwoQty, ItemNoId, ItemNoPrice}

SeqsUpTo(S, n) == UNION {[1..k -> S] : k \in 0..n}

\* An orderItems value: absent (undefined), an array, or one bare item object.
ItemsAbsent == [kind |-> "absent", list |-> <<>>]
ItemsArray(l) == [kind |-> "array", list |-> l]
ItemsObject(i) == [kind |-> "object", list |-> <<i>>]

\* checkItems (order.js 50-63)
checkItems(orderItems) ==
    IF orderItems.kind = "absent"
    THEN [ok |-> FALSE, err |-> "order contains no items", items |-> <<>>]
    ELSE LET items == orderItems.list
         IN IF Len(items) > 0
               /\ \A k \in 1..Len(items) :
                      items[k].itemId # "" /\ items[k].priceIsNumber
            THEN [ok |-> TRUE, err |-> "", items |-> items]
            ELSE [ok |-> FALSE, err |-> "order items invalid", items |-> <<>>]

\* const qty = item.qty || 1  (order.js 72)
itemQty(item) == IF item.hasQty /\ item.qty # 0 THEN item.qty ELSE 1

RECURSIVE reduceTotal(_)
reduceTotal(items) ==
    IF items = <<>> THEN 0
    ELSE reduceTotal(SubSeq(items, 1, Len(items) - 1))
         + items[Len(items)].price * itemQty(items[Len(items)])

\* calcTotal (order.js 69-75)
calcTotal(orderItems) ==
    LET c == checkItems(orderItems)
    IN IF c.ok THEN [ok |-> TRUE, err |-> "", total |-> reduceTotal(c.items)]
       ELSE [ok |-> FALSE, err |-> c.err, total |-> 0]

(***************************************************************************)
(* Guard set (order.js 77-177).  prev is o[PREVMODEL], the snapshot before *)
(* the update; o is the order with the proposed changes merged in.         *)
(***************************************************************************)
\* mutant: blocks only while the previous status is APPROVED
freezeOnApproval_OnlyApproved(propKey, prev) ==
    IF prev.orderStatus = APPROVED THEN propKey ELSE Null

\* freezeOnApproval (order.js 83-85): the key to block, or null
freezeOnApproval(propKey, prev) ==
    IF prev.orderStatus # PENDING THEN propKey ELSE Null

\* mutant: CANCELED is not treated as final
freezeOnCompletion_OnlyComplete(propKey, prev) ==
    IF prev.orderStatus \in {COMPLETE} THEN propKey ELSE Null

\* freezeOnCompletion (order.js 93-98): the key to block, or null
freezeOnCompletion(propKey, prev) ==
    IF prev.orderStatus \in {COMPLETE, CANCELED} THEN propKey ELSE Null

\* mutant: compares with a status value that is never set
requiredForCompletion_WrongStatus(propKey, o) ==
    IF ~Truthy(o.orderStatus) THEN Undef
    ELSE IF o.orderStatus = "COMPLETED" THEN propKey ELSE Undef

\* requiredForCompletion (order.js 106-109): the key to require, or undefined
requiredForCompletion(propKey, o) ==
    IF ~Truthy(o.orderStatus) THEN Undef
    ELSE IF o.orderStatus = COMPLETE THEN propKey ELSE Undef

\* mutant: the PENDING -> SHIPPING rule is missing
invalidStatusChanges_NoPendingShipping ==
    { <<APPROVED, PENDING>>,
      <<SHIPPING, PENDING>>,
      <<SHIPPING, APPROVED>>,
      <<PENDING, COMPLETE>> }

\* invalidStatusChanges (order.js 115-126) as <<from, to>> pairs
invalidStatusChanges ==
    { <<APPROVED, PENDING>>,
      <<SHIPPING, PENDING>>,
      <<SHIPPING, APPROVED>>,
      <<PENDING, SHIPPING>>,
      <<PENDING, COMPLETE>> }

\* invalidStatusChange (order.js 111-113)
invalidStatusChange(pair, prev, propVal) ==
    propVal = pair[2] /\ prev.orderStatus = pair[1]

\* statusChangeValid (order.js 131-138)
statusChangeValid(prev, propVal) ==
    IF ~Truthy(prev.orderStatus) THEN [ok |-> TRUE, err |-> ""]
    ELSE IF \E isc \in invalidStatusChanges : invalidStatusChange(isc, prev, propVal)
         THEN [ok |-> FALSE, err |-> "invalid status change"]
         ELSE [ok |-> TRUE, err |-> ""]

\* orderTotalValid (order.js 145-147)
orderTotalValid(o, propVal) ==
    LET c == calcTotal(o.orderItems)
    IN IF c.ok THEN [ok |-> TRUE, err |-> "", valid |-> (c.total = propVal)]
       ELSE [ok |-> FALSE, err |-> c.err, valid |-> FALSE]

\* recalcTotal (order.js 154-156)
recalcTotal(o, propVal) ==
    LET c == calcTotal(propVal)
    IN [ok |-> c.ok, err |-> c.err, orderTotal |-> c.total]

\* mutant: the previous value is not OR-ed in
updateSignature_NotSticky(o, propVal) ==
    LET c == calcTotal(propVal)
    IN [ok |-> c.ok, err |-> c.err,
        signatureRequired |->
            IF c.ok /\ c.total * 100 > SignatureThresholdCents
            THEN "true" ELSE "false"]

\* updateSignature (order.js 163-165):
\*   calcTotal(propVal) > 999.99 || o.signatureRequired
updateSignature(o, propVal) ==
    LET c == calcTotal(propVal)
    IN [ok |-> c.ok, err |-> c.err,
        signatureRequired |->
            IF c.ok /\ c.total * 100 > SignatureThresholdCents
            THEN "true" ELSE o.signatureRequired]

\* mutant: a SHIPPING order counts as finished
readyToDelete_AllowsShipping(model) ==
    IF model.orderStatus \notin {COMPLETE, CANCELED, SHIPPING}
    THEN [ok |-> FALSE, err |-> "order status incomplete"]
    ELSE [ok |-> TRUE, err |-> ""]

\* readyToDelete (order.js 170-177)
readyToDelete(model) ==
    IF model.orderStatus \notin {COMPLETE, CANCELED}
    THEN [ok |-> FALSE, err |-> "order status incomplete"]
    ELSE [ok |-> TRUE, err |-> ""]

(***************************************************************************)
(* The guarded update path, order.update(changes).  The model framework    *)
(* (mixins, processUpdate) is not part of the sources; it is modelled from *)
(* the specification: guards run in a fixed sequence on the proposed       *)
(* update, and any error aborts the whole update.                          *)
(***************************************************************************)
Merge(o, changes) ==
    [f \in DOMAIN o |-> IF f \in DOMAIN changes THEN changes[f] ELSE o[f]]

\* the original commercial fields, frozen once the order leaves PENDING
ApprovalFrozenFields ==
    {"orderItems", "billingAddress", "shippingAddress", "creditCardNumber"}

\* keys of the update that a freeze guard blocks
frozenKeys(prev, changes) ==
    { k \in DOMAIN changes :
        \/ k = "orderNo"
        \/ k \in ApprovalFrozenFields /\ freezeOnApproval(k, prev) = k
        \/ freezeOnCompletion(k, prev) = k }

\* keys that a require guard demands and the proposed order lacks
missingKeys(o) ==
    { k \in {"proofOfDelivery"} :
        requiredForCompletion(k, o) = k /\ ~Truthy(o[k]) }

Fail(e, prev) == [ok |-> FALSE, err |-> e, model |-> prev]

update(prev, changes) ==
    LET o == Merge(prev, changes)
        hasStatus == "orderStatus" \in DOMAIN changes
        hasTotal == "orderTotal" \in DOMAIN changes
        hasItems == "orderItems" \in DOMAIN changes
        sv == statusChangeValid(prev, o.orderStatus)
        tv == orderTotalValid(o, o.orderTotal)
        rt == recalcTotal(o, o.orderItems)
        us == updateSignature(o, o.orderItems)
    IN IF frozenKeys(prev, changes) # {}
       THEN Fail("cannot update readonly properties", prev)
       ELSE IF missingKeys(o) # {}
       THEN Fail("missing required properties", prev)
       ELSE IF hasStatus /\ ~sv.ok THEN Fail(sv.err, prev)
       ELSE IF hasTotal /\ ~tv.ok THEN Fail(tv.err, prev)
       ELSE IF hasTotal /\ ~tv.valid THEN Fail("invalid value for orderTotal", prev)
       ELSE IF hasItems /\ ~rt.ok THEN Fail(rt.err, prev)
       ELSE [ok |-> TRUE, err |-> "",
             model |-> IF hasItems
                       THEN Merge(o, [orderTotal |-> rt.orderTotal,
                                      signatureRequired |-> us.signatureRequired])
                       ELSE o]

(***************************************************************************)
(* Transition table and event dispatcher (order.js 291-368)                *)
(***************************************************************************)
\* mutant: the CANCELED action does not start compensation
OrderActions_NoCompensate(status) ==
    CASE status = PENDING -> {"validateAddress", "authorizePayment"}
      [] status = APPROVED -> {"pickOrder"}
      [] status = SHIPPING -> {"trackShipment"}
      [] OTHER -> {}

\* OrderActions (order.js 291-351): the adapter calls the action issues
OrderActions(status) ==
    CASE status = PENDING -> {"validateAddress", "authorizePayment"}
      [] status = APPROVED -> {"pickOrder"}
      [] status = SHIPPING -> {"trackShipment"}
      [] status = CANCELED -> {"compensate"}
      [] OTHER -> {}

\* handleOrderEvent (order.js 364-368): the status whose action is run, or "none"
handleOrderEvent(model, eventType, changes) ==
    IF ("orderStatus" \in DOMAIN changes /\ Truthy(changes.orderStatus))
       \/ eventType = "CREATE"
    THEN model.orderStatus
    ELSE "none"

\* handleStatusChange (order.js 357-359): the adapter calls of the action run
handleStatusChange(ran) == IF ran = "none" THEN {} ELSE OrderActions(ran)

(***************************************************************************)
(* Factory (order.js 370-402, index.js 45-51)                              *)
(***************************************************************************)
\* needSignature (order.js 370-372): a boolean input evaluates the undeclared
\* identifier requireSignature; otherwise the expression value is dropped and
\* the function returns undefined.
needSignature(input, total) ==
    IF input \in {"true", "false"}
    THEN [ok |-> FALSE, err |-> "ReferenceError: requireSignature is not defined",
          value |-> Undef]
    ELSE [ok |-> TRUE, err |-> "", value |-> Undef]

\* checkFormat(creditCardNumber, "creditCard") of the model framework
checkFormat(value) ==
    IF Truthy(value) /\ value = "bad-card"
    THEN [ok |-> FALSE, err |-> "creditCard invalid"]
    ELSE [ok |-> TRUE, err |-> ""]

BlankOrder ==
    [orderNo |-> Undef, orderStatus |-> Undef,
     orderItems |-> ItemsAbsent, orderTotal |-> 0, signatureRequired |-> Undef,
     billingAddress |-> Undef, shippingAddress |-> Undef,
     creditCardNumber |-> Undef, paymentAuthorization |-> Undef,
     receipt |-> Undef, pickupAddress |-> Undef, shipmentId |-> Undef,
     trackingId |-> Undef, trackingStatus |-> Undef, proofOfDelivery |-> Undef]

\* createOrder (order.js 379-401); uuid is dependencies.uuid, "undefined"
\* when the factory was made without it (index.js 51)
createOrder(input, uuid) ==
    LET c == calcTotal(input.orderItems)
        f == checkFormat(input.creditCardNumber)
        n == needSignature(input.requireSignature, c.total)
    IN IF ~c.ok THEN Fail(c.err, BlankOrder)
       ELSE IF ~f.ok THEN Fail(f.err, BlankOrder)
       ELSE IF ~n.ok THEN Fail(n.err, BlankOrder)
       ELSE IF uuid = Undef
       THEN Fail("TypeError: dependencies.uuid is not a function", BlankOrder)
       ELSE [ok |-> TRUE, err |-> "",
             model |-> Merge(BlankOrder,
                 [orderItems |-> input.orderItems,
                  creditCardNumber |-> input.creditCardNumber,
                  billingAddress |-> input.billingAddress,
                  shippingAddress |-> input.shippingAddress,
                  signatureRequired |-> n.value,
                  orderTotal |-> c.total,
                  orderStatus |-> PENDING,
                  orderNo |-> uuid])]

(***************************************************************************)
(* Continuations (order.js 193-286): the update each one issues, or the    *)
(* error it throws before issuing one.                                     *)
(***************************************************************************)
Issue(changes) == [ok |-> TRUE, err |-> "", changes |-> changes]
Throw(e) == [ok |-> FALSE, err |-> e, changes |-> <<>>]

\* paymentCompleted (order.js 193-195)
paymentCompleted == Issue([orderStatus |-> COMPLETE])

\* deliveryVerified (order.js 202-208)
deliveryVerified(proofOfDelivery) ==
    IF ~Truthy(proofOfDelivery) THEN Throw("proofOfDelivery missing")
    ELSE Issue([proofOfDelivery |-> proofOfDelivery])

\* done: trackingStatus === "orderDelivered" (order.js 222)
trackingDone(trackingStatus) == trackingStatus = "orderDelivered"

\* mutant: a delivered tracking update also completes the order
trackingUpdate_Completes(trackingId, trackingStatus) ==
    IF ~Truthy(trackingId) \/ ~Truthy(trackingStatus)
    THEN Throw("trackingId or trackingStatus missing")
    ELSE IF trackingDone(trackingStatus)
    THEN Issue([trackingId |-> trackingId, trackingStatus |-> trackingStatus,
                orderStatus |-> COMPLETE])
    ELSE Issue([trackingId |-> trackingId, trackingStatus |-> trackingStatus])

\* trackingUpdate (order.js 216-225)
trackingUpdate(trackingId, trackingStatus) ==
    IF ~Truthy(trackingId) \/ ~Truthy(trackingStatus)
    THEN Throw("trackingId or trackingStatus missing")
    ELSE Issue([trackingId |-> trackingId, trackingStatus |-> trackingStatus])

\* mutant: the shipmentId check is missing
orderShipped_NoCheck(shipmentId) ==
    [ok |-> TRUE, err |-> "",
     changes |-> [shipmentId |-> shipmentId, orderStatus |-> SHIPPING]]

\* orderShipped (order.js 232-238)
orderShipped(shipmentId) ==
    IF ~Truthy(shipmentId) THEN Throw("shipmentId missing")
    ELSE Issue([shipmentId |-> shipmentId, orderStatus |-> SHIPPING])

\* orderPicked (order.js 244-251)
orderPicked(pickupAddress) ==
    IF ~Truthy(pickupAddress) THEN Throw("pickupAddress is missing")
    ELSE Issue([pickupAddress |-> pickupAddress])

\* addressValidated (order.js 258-265)
addressValidated(shippingAddress) ==
    IF ~Truthy(shippingAddress) THEN Throw("shippingAddress is missing")
    ELSE Issue([shippingAddress |-> shippingAddress])

\* mutant: the authorization also approves the order
paymentAuthorized_Approves(paymentAuthorization) ==
    IF ~Truthy(paymentAuthorization) THEN Throw("paymentAuthorization is missing")
    ELSE Issue([paymentAuthorization |-> paymentAuthorization,
                orderStatus |-> APPROVED])

\* paymentAuthorized (order.js 272-278)
paymentAuthorized(paymentAuthorization) ==
    IF ~Truthy(paymentAuthorization) THEN Throw("paymentAuthorization is missing")
    ELSE Issue([paymentAuthorization |-> paymentAuthorization])

\* refundPayment (order.js 280-286)
refundPayment(receipt) ==
    IF ~Truthy(receipt) THEN Throw("receipt is missing")
    ELSE Issue([receipt |-> receipt])

(***************************************************************************)
(* Inputs                                                                  *)
(***************************************************************************)
Payloads == {"", "v1"}
TrackingStatuses == {"", "inTransit", "orderDelivered"}
CardNumbers == {Null, "4111111111111111", "bad-card"}
Addresses == {Null, "v1"}
SignatureInputs == {Undef, "true"}
UuidDependency == {Undef, "order-1"}

OrderItemInputs ==
    {ItemsAbsent} \cup {ItemsArray(l) : l \in SeqsUpTo(ValidItemPool, MaxItems)}
        \cup {ItemsArray(<<ItemNoId>>)}

\* createOrder inputs of the commerce specification
CreateInputs ==
    [orderItems : OrderItemInputs, creditCardNumber : CardNumbers,
     billingAddress : Addresses, shippingAddress : Addresses,
     requireSignature : SignatureInputs]

\* createOrder inputs of the lifecycle specification
LifecycleInputs ==
    [orderItems : {ItemsAbsent, ItemsArray(<<ItemA>>), ItemsArray(<<ItemA, ItemB>>)},
     creditCardNumber : {"4111111111111111"},
     billingAddress : {"v1"}, shippingAddress : {Null},
     requireSignature : {Undef}]

ProposedTotals == {0, 5, 500, 1100}

\* status updates a caller of order.update proposes directly
StatusChanges == {[orderStatus |-> s] : s \in OrderStatus}

\* updates of the commercial fields a caller of order.update proposes
CommerceChanges ==
    {[orderItems |-> i] : i \in OrderItemInputs}
    \cup {[orderTotal |-> t] : t \in ProposedTotals}
    \cup {[orderItems |-> i, orderTotal |-> t] :
            i \in {ItemsArray(<<ItemA>>), ItemsArray(<<ItemZeroQty>>)},
            t \in ProposedTotals}
    \cup {[billingAddress |-> "v1"], [creditCardNumber |-> "4111111111111111"],
          [shippingAddress |-> "v1"]}

(***************************************************************************)
(* State machine                                                           *)
(***************************************************************************)
NoOp == [op |-> "init", result |-> "ok", issued |-> FALSE, ran |-> "none",
         calls |-> {}]

\* the reversal steps of the compensation chain, in order
CompensationChain ==
    <<"cancelPayment", "returnShipment", "returnDelivery", "returnInventory">>

CompensationSteps == {CompensationChain[k] : k \in 1..Len(CompensationChain)}

\* no compensation run so far
NoSaga ==
    [chain |-> <<>>, runs |-> 0,
     count |-> [s \in CompensationSteps |-> 0], failed |-> {}]

AdapterCalls ==
    {"validateAddress", "authorizePayment", "pickOrder", "trackShipment",
     "compensate"}

\* no handleOrderEvent call so far
NoDispatch ==
    [handler |-> "idle", status |-> "none",
     promises |-> [c \in AdapterCalls |-> "none"], exec |-> "idle"]

InitAux ==
    /\ deleted = FALSE
    /\ saga = NoSaga
    /\ dispatch = NoDispatch

Init ==
    /\ created = FALSE
    /\ order = BlankOrder
    /\ last = NoOp
    /\ calcIn = ItemsAbsent
    /\ calcOut = [ok |-> FALSE, err |-> "", total |-> 0]
    /\ InitAux

\* createOrder followed by the CREATE event
CreateWith(input, uuid) ==
    LET r == createOrder(input, uuid)
        ran == IF r.ok THEN handleOrderEvent(r.model, "CREATE", <<>>)
               ELSE "none"
    IN /\ created' = r.ok
       /\ order' = r.model
       /\ last' = [op |-> "createOrder",
                   result |-> IF r.ok THEN "ok" ELSE r.err,
                   issued |-> FALSE, ran |-> ran,
                   calls |-> handleStatusChange(ran)]

CreateStep(inputs) ==
    /\ ~created
    /\ \E input \in inputs, uuid \in UuidDependency : CreateWith(input, uuid)

Create(inputs) ==
    /\ CreateStep(inputs)
    /\ UNCHANGED <<calc, aux>>

\* order.update(changes) followed by the UPDATE event when it was accepted
Apply(op, c) ==
    IF ~c.ok
    THEN /\ order' = order
         /\ last' = [op |-> op, result |-> c.err, issued |-> FALSE,
                     ran |-> "none", calls |-> {}]
    ELSE LET r == update(order, c.changes)
             ran == IF r.ok THEN handleOrderEvent(r.model, "UPDATE", c.changes)
                    ELSE "none"
         IN /\ order' = r.model
            /\ last' = [op |-> op, result |-> IF r.ok THEN "ok" ELSE r.err,
                        issued |-> TRUE, ran |-> ran,
                        calls |-> handleStatusChange(ran)]

ContinueStep(op, c) ==
    /\ created
    /\ ~deleted
    /\ Apply(op, c)
    /\ UNCHANGED created

Continue(op, c) ==
    /\ ContinueStep(op, c)
    /\ UNCHANGED <<calc, aux>>

PaymentCompleted == Continue("paymentCompleted", paymentCompleted)
DeliveryVerified == \E p \in Payloads : Continue("deliveryVerified", deliveryVerified(p))
TrackingUpdate ==
    \E id \in Payloads, st \in TrackingStatuses :
        Continue("trackingUpdate", trackingUpdate(id, st))
OrderShipped == \E p \in Payloads : Continue("orderShipped", orderShipped(p))
OrderPicked == \E p \in Payloads : Continue("orderPicked", orderPicked(p))
AddressValidated == \E p \in Payloads : Continue("addressValidated", addressValidated(p))
PaymentAuthorized == \E p \in Payloads : Continue("paymentAuthorized", paymentAuthorized(p))
RefundPayment == \E p \in Payloads : Continue("refundPayment", refundPayment(p))

UpdateStatus == \E ch \in StatusChanges : Continue("update", Issue(ch))
UpdateCommerce == \E ch \in CommerceChanges : Continue("update", Issue(ch))

CreateOrder == Create(LifecycleInputs)
CreateAnyOrder == Create(CreateInputs)

\* errorCallback / timeoutCallback (order.js 408-420): order.compensate()
ReportStep(op) ==
    /\ created
    /\ ~deleted
    /\ last' = [op |-> op, result |-> "ok", issued |-> FALSE, ran |-> "none",
                calls |-> {"compensate"}]
    /\ UNCHANGED <<created, order>>

Report(op) ==
    /\ ReportStep(op)
    /\ UNCHANGED <<calc, aux>>

ErrorCallback == Report("errorCallback")
TimeoutCallback == Report("timeoutCallback")

\* deletion of the order, guarded by readyToDelete (order.js 170-177)
DeleteOrder ==
    /\ created
    /\ ~deleted
    /\ LET r == readyToDelete(order)
       IN /\ deleted' = r.ok
          /\ last' = [op |-> "delete", result |-> IF r.ok THEN "ok" ELSE r.err,
                      issued |-> FALSE, ran |-> "none", calls |-> {}]
    /\ UNCHANGED <<created, order, calc, saga, dispatch>>

\* The order lifecycle: creation, the continuations, status updates and the
\* error / timeout reporter.
Next ==
    \/ CreateOrder
    \/ PaymentCompleted
    \/ DeliveryVerified
    \/ TrackingUpdate
    \/ OrderShipped
    \/ OrderPicked
    \/ AddressValidated
    \/ PaymentAuthorized
    \/ RefundPayment
    \/ UpdateStatus
    \/ ErrorCallback
    \/ TimeoutCallback
    \/ DeleteOrder

Spec == Init /\ [][Next]_vars

\* The commercial data of an order: creation from any input and updates of
\* items, total, addresses, card and status.
NextCommerce ==
    \/ CreateAnyOrder
    \/ UpdateCommerce
    \/ UpdateStatus
    \/ AddressValidated
    \/ DeliveryVerified
    \/ PaymentCompleted

SpecCommerce == Init /\ [][NextCommerce]_vars

\* status values outside OrderStatus that a caller may propose; "COMPLETED"
\* is the spelling of the Order typedef (order.js 32)
UnknownStatuses == {"COMPLETED"}

UpdateUnknownStatus ==
    \E st \in UnknownStatuses : Continue("update", Issue([orderStatus |-> st]))

\* The status field: creation and every operation that proposes an
\* orderStatus, including values outside OrderStatus.
NextStatus ==
    \/ CreateOrder
    \/ UpdateStatus
    \/ UpdateUnknownStatus
    \/ OrderShipped
    \/ DeliveryVerified
    \/ PaymentCompleted

SpecStatus == Init /\ [][NextStatus]_vars

(***************************************************************************)
(* Compensation.  order.compensate() is a port function of the model       *)
(* framework and not part of the sources; the chain is modelled from the   *)
(* specification: the reversal steps run in order, each one whether or not *)
(* an earlier one failed, and none of them touches the order.              *)
(***************************************************************************)
\* order.compensate(): one more run of the chain is queued
compensate(sg) ==
    [sg EXCEPT !.chain = @ \o CompensationChain, !.runs = @ + 1]

\* a status update; the CANCELED action calls order.compensate()
\* (order.js 336-342)
SagaUpdateStatus ==
    /\ \E ch \in StatusChanges : ContinueStep("update", Issue(ch))
    /\ saga' = IF "compensate" \in last'.calls THEN compensate(saga) ELSE saga
    /\ UNCHANGED <<calc, deleted, dispatch>>

\* errorCallback / timeoutCallback (order.js 408-420) call order.compensate()
SagaReport(op) ==
    /\ saga.runs < MaxReports
    /\ ReportStep(op)
    /\ saga' = IF "compensate" \in last'.calls THEN compensate(saga) ELSE saga
    /\ UNCHANGED <<calc, deleted, dispatch>>

SagaErrorCallback == SagaReport("errorCallback")
SagaTimeoutCallback == SagaReport("timeoutCallback")

\* the next reversal step of the chain is invoked; it may fail, which is logged
CompensateStep ==
    /\ saga.chain # <<>>
    /\ \E fails \in BOOLEAN :
         saga' = [saga EXCEPT
                    !.chain = Tail(@),
                    !.count[Head(saga.chain)] = @ + 1,
                    !.failed = IF fails THEN @ \cup {Head(saga.chain)} ELSE @]
    /\ UNCHANGED <<created, order, last, calc, deleted, dispatch>>

NextSaga ==
    \/ CreateOrder
    \/ SagaUpdateStatus
    \/ SagaErrorCallback
    \/ SagaTimeoutCallback
    \/ CompensateStep

\* a queued reversal step is a scheduled task of the event loop and runs
SpecSaga == Init /\ [][NextSaga]_vars /\ WF_vars(CompensateStep)

(***************************************************************************)
(* Dispatch of a status action and the promises of the adapter calls it    *)
(* issues (order.js 297-368, address-adapter.js 18-36).  Only the address  *)
(* adapter is part of the sources; the other adapters are promises that    *)
(* settle either way.                                                      *)
(***************************************************************************)
\* mutant: the APPROVED action returns the promise of pickOrder
awaitedCalls_PickAwaited(status) ==
    IF status = PENDING THEN {"validateAddress", "authorizePayment"}
    ELSE IF status = APPROVED THEN {"pickOrder"}
    ELSE {}

\* the adapter promises the action returns to handleOrderEvent, which awaits
\* them: PENDING returns Promise.all([...]) (order.js 299-303), the other
\* actions call the adapter and return nothing (order.js 312-350)
awaitedCalls(status) ==
    IF status = PENDING THEN {"validateAddress", "authorizePayment"} ELSE {}

\* await handleStatusChange(order) (order.js 366): Promise.all rejects with
\* the first rejection and resolves when every promise has resolved
awaitResult(d, promises) ==
    IF d.handler # "awaiting" THEN d.handler
    ELSE IF \E c \in awaitedCalls(d.status) : promises[c] = "rejected"
    THEN "rejected"
    ELSE IF \A c \in awaitedCalls(d.status) : promises[c] = "resolved"
    THEN "resolved"
    ELSE "awaiting"

\* handleOrderEvent (order.js 364-368) for the status action ran
startHandler(d, ran) ==
    IF ran = "none" THEN d
    ELSE LET issued == handleStatusChange(ran)
         IN [handler |-> IF awaitedCalls(ran) \cap issued = {}
                         THEN "resolved" ELSE "awaiting",
             status |-> ran,
             promises |-> [c \in AdapterCalls |->
                             IF c \in issued THEN "pending" ELSE d.promises[c]],
             exec |-> IF "validateAddress" \in issued THEN "started"
                      ELSE d.exec]

AsyncCreate ==
    /\ dispatch.handler # "awaiting"
    /\ CreateStep(LifecycleInputs)
    /\ dispatch' = startHandler(dispatch, last'.ran)
    /\ UNCHANGED <<calc, deleted, saga>>

AsyncUpdateStatus ==
    /\ dispatch.handler # "awaiting"
    /\ \E ch \in StatusChanges : ContinueStep("update", Issue(ch))
    /\ dispatch' = startHandler(dispatch, last'.ran)
    /\ UNCHANGED <<calc, deleted, saga>>

Settled(d, c, outcome) ==
    LET promises == [d.promises EXCEPT ![c] = outcome]
    IN [d EXCEPT !.promises = promises, !.handler = awaitResult(d, promises)]

\* an adapter other than the address adapter resolves or rejects its promise
SettleAdapter ==
    /\ \E c \in AdapterCalls \ {"validateAddress"},
          outcome \in {"resolved", "rejected"} :
         /\ dispatch.promises[c] = "pending"
         /\ dispatch' = Settled(dispatch, c, outcome)
    /\ UNCHANGED <<created, order, last, calc, deleted, saga>>

\* validateAddress executor (address-adapter.js 20-27): order.decrypt() is
\* evaluated outside the try block; when it throws the executor ends and
\* neither resolve nor reject is called
ExecDecrypt ==
    /\ dispatch.exec = "started"
    /\ \E throws \in BOOLEAN :
         dispatch' = [dispatch EXCEPT
                        !.exec = IF throws THEN "decryptThrew" ELSE "service"]
    /\ UNCHANGED <<created, order, last, calc, deleted, saga>>

\* await service.validateAddress(...) rejects (address-adapter.js 25-27),
\* again outside the try block
ExecServiceFails ==
    /\ dispatch.exec = "service"
    /\ dispatch' = [dispatch EXCEPT !.exec = "serviceRejected"]
    /\ UNCHANGED <<created, order, last, calc, deleted, saga>>

\* the service returns an address and the callback runs inside the try block
\* (address-adapter.js 28-33): resolve(update) or reject(error)
ExecCallback ==
    /\ dispatch.exec = "service"
    /\ \E a \in Payloads : ContinueStep("addressValidated", addressValidated(a))
    /\ dispatch' = [Settled(dispatch, "validateAddress",
                            IF last'.result = "ok" THEN "resolved"
                            ELSE "rejected")
                      EXCEPT !.exec = "done"]
    /\ UNCHANGED <<calc, deleted, saga>>

NextAsync ==
    \/ AsyncCreate
    \/ AsyncUpdateStatus
    \/ SettleAdapter
    \/ ExecDecrypt
    \/ ExecServiceFails
    \/ ExecCallback

SpecAsync == Init /\ [][NextAsync]_vars

\* The pure function calcTotal applied to every bounded orderItems value.
CalcInputs ==
    {ItemsAbsent} \cup {ItemsArray(l) : l \in SeqsUpTo(ItemPool, MaxItems)}
        \cup {ItemsObject(i) : i \in ItemPool}

InitCalc ==
    /\ created = FALSE
    /\ order = BlankOrder
    /\ last = NoOp
    /\ calcIn \in CalcInputs
    /\ calcOut = [ok |-> FALSE, err |-> "", total |-> 0]
    /\ InitAux

CalcTotal ==
    /\ last.op = "init"
    /\ calcOut' = calcTotal(calcIn)
    /\ last' = [op |-> "calcTotal", result |-> "ok", issued |-> FALSE,
                ran |-> "none", calls |-> {}]
    /\ UNCHANGED <<created, order, calcIn, aux>>

NextCalc == CalcTotal

SpecCalc == InitCalc /\ [][NextCalc]_vars

TypeOK ==
    /\ created \in BOOLEAN
    /\ order.orderStatus \in OrderStatus \cup {Undef}
    /\ created => order.orderStatus \in OrderStatus


(***************************************************************************)
(* Properties                                                              *)
(***************************************************************************)
\* the edges of the status state machine
AllowedEdges ==
    { <<PENDING, APPROVED>>, <<APPROVED, SHIPPING>>, <<SHIPPING, COMPLETE>>,
      <<PENDING, CANCELED>>, <<APPROVED, CANCELED>>, <<SHIPPING, CANCELED>> }

ReadonlyError == "cannot update readonly properties"

MissingFieldErrors ==
    {"proofOfDelivery missing", "trackingId or trackingStatus missing",
     "shipmentId missing", "pickupAddress is missing",
     "shippingAddress is missing", "paymentAuthorization is missing",
     "receipt is missing"}

\* C1: an update whose (previous status -> new status) pair is not an allowed
\* edge is rejected, so orderStatus only ever moves along an allowed edge.
C1_StatusOnlyAlongAllowedEdges ==
    [][created =>
         \/ order'.orderStatus = order.orderStatus
         \/ <<order.orderStatus, order'.orderStatus>> \in AllowedEdges]_vars

\* C2: once the order is COMPLETE or CANCELED every later update fails and no
\* field changes.
C2_TerminalOrderFrozen ==
    [][order.orderStatus \in {COMPLETE, CANCELED} =>
         /\ order' = order
         /\ last'.issued => last'.result = ReadonlyError]_vars

C2_Witness ==
    /\ order.orderStatus \in {COMPLETE, CANCELED}
    /\ last.op = "refundPayment"
    /\ last.issued
    /\ last.result = ReadonlyError

C4_RejectedUpdateNotApplied ==
    [][/\ last'.result # "ok" => order' = order
       /\ (created /\ order.orderStatus = PENDING
             /\ Apply("orderShipped", orderShipped("v1")))
          => (last'.result # "ok" /\ order' = order)]_vars

C4_Witness ==
    /\ order.orderStatus = PENDING
    /\ last.op = "orderShipped"
    /\ last.issued
    /\ last.result = "invalid status change"
    /\ order.shipmentId = Undef

\* C5: the status action runs only for a creation or for an update that
\* changed orderStatus.
C5_ActionOnlyOnStatusEntry ==
    [][last'.ran # "none" =>
         \/ last'.op = "createOrder"
         \/ order'.orderStatus # order.orderStatus]_vars

\* the total the specification prescribes: qty counts as 1 only when absent
RECURSIVE SumPriceQty(_)
SumPriceQty(items) ==
    IF items = <<>> THEN 0
    ELSE SumPriceQty(SubSeq(items, 1, Len(items) - 1))
         + items[Len(items)].price
             * (IF items[Len(items)].hasQty THEN items[Len(items)].qty ELSE 1)

\* C6: in every state reached by creation and accepted updates orderTotal is
\* the sum of price*qty over the current orderItems.
C6_TotalIsSumOfItems ==
    created => order.orderTotal = SumPriceQty(order.orderItems.list)

\* C7: once signatureRequired is true no later update makes it non-true, and
\* an accepted orderItems update yields true whenever the new total exceeds
\* 999.99 or the previous value was true.
C7_SignatureMonotonic ==
    [][/\ order.signatureRequired = "true" => order'.signatureRequired = "true"
       /\ \A i \in OrderItemInputs :
            (created /\ Apply("update", Issue([orderItems |-> i]))
               /\ last'.result = "ok"
               /\ (calcTotal(i).total * 100 > SignatureThresholdCents
                     \/ order.signatureRequired = "true"))
            => order'.signatureRequired = "true"]_vars

C7_Witness ==
    /\ created
    /\ last.op = "update"
    /\ last.result = "ok"
    /\ order.signatureRequired = "true"
    /\ order.orderTotal * 100 <= SignatureThresholdCents

\* C8: creating an order with valid items succeeds with an orderNo, status
\* PENDING, orderTotal = calcTotal(orderItems) and signatureRequired true
\* exactly when the total exceeds 999.99 or a signature was requested.
C8_CreateYieldsPendingOrder ==
    [][\A input \in CreateInputs, uuid \in UuidDependency :
         (~created /\ calcTotal(input.orderItems).ok
            /\ checkFormat(input.creditCardNumber).ok
            /\ CreateWith(input, uuid))
         => /\ created'
            /\ order'.orderNo # Undef
            /\ order'.orderStatus = PENDING
            /\ order'.orderTotal = calcTotal(input.orderItems).total
            /\ (order'.signatureRequired = "true")
                 <=> (order'.orderTotal * 100 > SignatureThresholdCents
                        \/ input.requireSignature = "true")]_vars

\* C9: calcTotal returns the sum of price*qty with qty taken as 1 only when
\* absent, and fails for absent or empty items and for an item without an
\* itemId or a numeric price.
C9_CalcTotalIsSum ==
    last.op = "calcTotal" =>
        IF calcIn.kind = "absent" \/ calcIn.list = <<>>
           \/ \E k \in 1..Len(calcIn.list) :
                 calcIn.list[k].itemId = "" \/ ~calcIn.list[k].priceIsNumber
        THEN ~calcOut.ok
        ELSE calcOut.ok /\ calcOut.total = SumPriceQty(calcIn.list)

\* C10: a continuation given an empty required payload fails with a
\* missing-field error, issues no update, leaves the order unchanged, runs no
\* status action and does not invoke compensation.
EmptyPayloadCalls ==
    { <<"deliveryVerified", deliveryVerified("")>>,
      <<"trackingUpdate", trackingUpdate("", "inTransit")>>,
      <<"trackingUpdate", trackingUpdate("v1", "")>>,
      <<"trackingUpdate", trackingUpdate("", "")>>,
      <<"orderShipped", orderShipped("")>>,
      <<"orderPicked", orderPicked("")>>,
      <<"addressValidated", addressValidated("")>>,
      <<"paymentAuthorized", paymentAuthorized("")>>,
      <<"refundPayment", refundPayment("")>> }

C10_EmptyPayloadRejected ==
    [][\A c \in EmptyPayloadCalls :
         (created /\ Apply(c[1], c[2]))
         => /\ last'.result \in MissingFieldErrors
            /\ ~last'.issued
            /\ order' = order
            /\ last'.ran = "none"
            /\ "compensate" \notin last'.calls]_vars

C10_Witness ==
    /\ order.orderStatus = APPROVED
    /\ last.op = "orderShipped"
    /\ last.result = "shipmentId missing"
    /\ ~last.issued
    /\ order.shipmentId = Undef

\* C11: for a PENDING order addressValidated and paymentAuthorized commit in
\* either order with the same resulting order, both fields recorded, neither
\* depending on the other, and orderStatus still PENDING with no action run.
C11_PendingContinuationsCommute ==
    (created /\ ~deleted /\ order.orderStatus = PENDING) =>
        LET a == addressValidated("v1").changes
            p == paymentAuthorized("v1").changes
            ra == update(order, a)
            rp == update(order, p)
            rap == update(ra.model, p)
            rpa == update(rp.model, a)
        IN /\ ra.ok /\ rp.ok /\ rap.ok /\ rpa.ok
           /\ rap.model = rpa.model
           /\ rap.model.shippingAddress = "v1"
           /\ rap.model.paymentAuthorization = "v1"
           /\ rap.model.orderStatus = PENDING
           /\ rp.model.shippingAddress = order.shippingAddress
           /\ ra.model.paymentAuthorization = order.paymentAuthorization
           /\ handleOrderEvent(rap.model, "UPDATE", p) = "none"
           /\ handleOrderEvent(rpa.model, "UPDATE", a) = "none"

C11_Witness ==
    /\ order.orderStatus = PENDING
    /\ last.op = "addressValidated"
    /\ last.result = "ok"
    /\ order.shippingAddress = "v1"
    /\ order.paymentAuthorization = "v1"

ContinuationChanges ==
    << paymentCompleted.changes, deliveryVerified("v1").changes,
       trackingUpdate("v1", "inTransit").changes, orderShipped("v1").changes,
       orderPicked("v1").changes, addressValidated("v1").changes,
       paymentAuthorized("v1").changes, refundPayment("v1").changes >>

\* C15: applying a continuation a second time with the same payload gives the
\* same order as applying it once and runs no further status action.
C15_ContinuationsIdempotent ==
    (created /\ ~deleted) =>
        \A k \in 1..Len(ContinuationChanges) :
            LET ch == ContinuationChanges[k]
                r1 == update(order, ch)
                r2 == update(r1.model, ch)
            IN r1.ok =>
                 /\ r2.model = r1.model
                 /\ r2.ok => handleOrderEvent(r2.model, "UPDATE", ch) = "none"

\* C17: readyToDelete fails for an order that is not COMPLETE or CANCELED and
\* passes the order through unchanged when it is, so a deleted order is always
\* COMPLETE or CANCELED.
C17_DeleteOnlyWhenFinal ==
    [][/\ ~readyToDelete(BlankOrder).ok
       /\ deleted' => order'.orderStatus \in {COMPLETE, CANCELED}
       /\ (created /\ ~deleted /\ last'.op = "delete")
          => /\ order' = order
             /\ deleted' <=> order.orderStatus \in {COMPLETE, CANCELED}
             /\ ~deleted' => last'.result = "order status incomplete"]_vars

C17_Witness ==
    /\ deleted
    /\ last.op = "delete"
    /\ order.orderStatus = COMPLETE

\* C18: an update whose incoming status is COMPLETE is accepted only when
\* proofOfDelivery has a value, so the order is never COMPLETE without it;
\* requiredForCompletion names the field exactly for incoming status COMPLETE.
C18_CompleteNeedsProof ==
    [][/\ order'.orderStatus = COMPLETE => Truthy(order'.proofOfDelivery)
       /\ (created /\ ~deleted /\ ~Truthy(order.proofOfDelivery)
             /\ Apply("paymentCompleted", paymentCompleted))
          => (last'.result # "ok" /\ order'.orderStatus # COMPLETE)
       /\ \A st \in OrderStatus :
            (requiredForCompletion("proofOfDelivery",
                                   Merge(order, [orderStatus |-> st]))
                = "proofOfDelivery") <=> (st = COMPLETE)]_vars

C18_Witness ==
    /\ order.orderStatus = SHIPPING
    /\ last.op = "paymentCompleted"
    /\ last.issued
    /\ last.result = "missing required properties"
    /\ order.proofOfDelivery = Undef

\* C19: in every state reached through creation and accepted updates
\* orderStatus is one of the five OrderStatus values, so the action that is
\* dispatched is always a registered one.
C19_StatusInEnum ==
    created =>
        /\ order.orderStatus \in OrderStatus
        /\ last.ran \in OrderStatus \cup {"none"}

\* C12: when the order is updated to CANCELED the CANCELED action starts
\* compensation, and every reversal step of that run is eventually invoked,
\* whether or not an earlier step failed.
C12_CancelRunsEveryReversal ==
    /\ [](order.orderStatus = CANCELED => saga.runs >= 1)
    /\ \A n \in 1..(MaxReports + 1) :
         (order.orderStatus = CANCELED /\ saga.runs = n)
            ~> (\A st \in CompensationSteps : saga.count[st] >= n)

C12_Witness ==
    /\ order.orderStatus = CANCELED
    /\ saga.runs = 1
    /\ \A st \in CompensationSteps : saga.count[st] = 1
    /\ "cancelPayment" \in saga.failed

\* C13: whenever errorCallback or timeoutCallback is invoked for a PENDING,
\* APPROVED or SHIPPING order, the order's status eventually is CANCELED.
C13_CompensatedEndsCanceled ==
    (last.op \in {"errorCallback", "timeoutCallback"}
        /\ order.orderStatus \in {PENDING, APPROVED, SHIPPING})
      ~> (order.orderStatus = CANCELED)

\* C16 (as claimed): for every status handleOrderEvent completes while the
\* adapter calls it issued are outstanding, and no adapter failure rejects it.
C16_HandlerNeverWaits ==
    dispatch.handler \notin {"awaiting", "rejected"}

\* C16 (amended): for APPROVED, SHIPPING and CANCELED handleOrderEvent
\* completes whatever the state of the adapter calls and is not failed by
\* them; for PENDING it waits for validateAddress and authorizePayment, and
\* is rejected exactly by a rejection of one of the two.
C16_OnlyPendingWaits ==
    /\ dispatch.status \in {APPROVED, SHIPPING, CANCELED}
         => dispatch.handler = "resolved"
    /\ dispatch.handler = "awaiting"
         => /\ dispatch.status = PENDING
            /\ \E c \in {"validateAddress", "authorizePayment"} :
                  dispatch.promises[c] = "pending"
    /\ dispatch.handler = "rejected"
         => /\ dispatch.status = PENDING
            /\ \E c \in {"validateAddress", "authorizePayment"} :
                  dispatch.promises[c] = "rejected"
    /\ (dispatch.status = PENDING /\ dispatch.handler = "resolved")
         => \A c \in {"validateAddress", "authorizePayment"} :
               dispatch.promises[c] = "resolved"

C16_Witness ==
    /\ dispatch.status = APPROVED
    /\ dispatch.handler = "resolved"
    /\ dispatch.promises["pickOrder"] = "rejected"
    /\ order.orderStatus = APPROVED

\* C20: once the executor of the validateAddress adapter has finished, the
\* promise it returned is resolved or rejected.
C20_AddressPromiseSettles ==
    dispatch.exec \in {"done", "decryptThrew", "serviceRejected"}
        => dispatch.promises["validateAddress"] \in {"resolved", "rejected"}

====
